---- MODULE Spec2Model ----
(***************************************************************************)
(* vertex-client: a local limit order book kept in step with a venue.      *)
(*                                                                         *)
(*   Subscribe (listener.rs)        the reconnecting book_depth listener,  *)
(*                                  producer of the mpsc channel           *)
(*   build_orderbook (main.rs)      the consumer: snapshot, then deltas,   *)
(*                                  with a new snapshot when a gap shows   *)
(*   OrderBook (model.rs)           from_snapshot, update,                 *)
(*                                  validate_orderbook, visualize          *)
(*                                                                         *)
(* Prices, quantities and timestamps are u128 in the source.  The code     *)
(* only compares them, so the model keeps the few values the documented    *)
(* scenarios use (prices 50, 60, 65; timestamps 100, 110, ...) and scales  *)
(* u128::MAX down to 2^PriceBits - 1.                                      *)
(***************************************************************************)
EXTENDS Integers, Sequences, FiniteSets, TLC

\* ------------------------------------------------------------------ bounds

\* Capacity of the channel (BOOK_DEPTH_STREAM_BUFFER_SIZE, scaled down).
QueueCap == 1

\* Number of text frames the venue sends that parse as a StreamResponseType.
MaxFrames == 3

\* The most (price, quantity) pairs in a message fed to the OrderBook directly.
MaxLevels == 2

\* Width of a price in bits (128 in the source).
PriceBits == 7

\* ------------------------------------------------------------------ values

U128_MAX == 2 ^ PriceBits - 1

\* Option<T>: None, or Some(x).
None == << >>

Some(x) == <<x>>

\* A decimal string is the number it spells; Malformed is a string that
\* spells none.
Malformed == 0 - 1

\* str::parse::<u128>: digits that fit 128 bits, or an error.
parse_u128(str) == IF str \in 0 .. U128_MAX THEN Some(str) ELSE None

\* The code compares a timestamp with at most two others (the snapshot's and
\* the previous event's): three values give every order among them.
Timestamps == {100, 110, 120}

\* A BTreeMap<u128, u128> is a function from the stored prices to quantities.
EmptyMap == [p \in {} |-> 0]

\* ----------------------------------------------------- model.rs: OrderBook

new == [bids |-> EmptyMap, asks |-> EmptyMap]

insert(m, price, quantity) ==
    [p \in DOMAIN m \cup {price} |-> IF p = price THEN quantity ELSE m[p]]

\* BTreeMap::remove that leaves the map as it is.
remove_nothing(m, price) == m

remove(m, price) == [p \in DOMAIN m \ {price} |-> m[p]]

\* The body of the loops inserting the pair whatever its quantity.
apply_level_insert_only(m, level) == insert(m, level[1], level[2])

\* The body of each of the four loops over (price, quantity) pairs.
apply_level(m, level) ==
    IF level[2] = 0 THEN remove(m, level[1]) ELSE insert(m, level[1], level[2])

RECURSIVE apply_levels(_, _)
apply_levels(m, levels) ==
    IF levels = << >> THEN m
    ELSE apply_levels(apply_level(m, Head(levels)), Tail(levels))

first_key(m) == CHOOSE p \in DOMAIN m : \A q \in DOMAIN m : p <= q

last_key(m) == CHOOSE p \in DOMAIN m : \A q \in DOMAIN m : q <= p

\* validate_orderbook without its two price-range assertions.
validate_spread_and_quantity(book) ==
    IF /\ DOMAIN book.bids # {}
       /\ DOMAIN book.asks # {}
       /\ ~ (last_key(book.bids) < first_key(book.asks))
    THEN "Bid-Ask Spread Violation"
    ELSE IF \E p \in DOMAIN book.bids : ~ (book.bids[p] > 0)
    THEN "Quantity Zero Violation"
    ELSE IF \E p \in DOMAIN book.asks : ~ (book.asks[p] > 0)
    THEN "Quantity Zero Violation"
    ELSE "ok"

\* The assertions of validate_orderbook, in the order the code makes them:
\* the name of the first that fails, or "ok".
validate_orderbook(book) ==
    IF /\ DOMAIN book.bids # {}
       /\ DOMAIN book.asks # {}
       /\ ~ (last_key(book.bids) < first_key(book.asks))
    THEN "Bid-Ask Spread Violation"
    ELSE IF \E p \in DOMAIN book.bids : ~ (book.bids[p] > 0)
    THEN "Quantity Zero Violation"
    ELSE IF \E p \in DOMAIN book.asks : ~ (book.asks[p] > 0)
    THEN "Quantity Zero Violation"
    ELSE IF DOMAIN book.bids # {} /\ ~ (first_key(book.bids) > 0)
    THEN "Invalid Bid Price"
    ELSE IF DOMAIN book.asks # {} /\ ~ (last_key(book.asks) < U128_MAX)
    THEN "Invalid Ask Price"
    ELSE "ok"

\* from_snapshot without its two clear() calls.
from_snapshot_no_clear(book, snapshot) ==
    [bids |-> apply_levels(book.bids, snapshot.bids),
     asks |-> apply_levels(book.asks, snapshot.asks)]

\* The maps from_snapshot leaves behind (before validate_orderbook runs).
from_snapshot(book, snapshot) ==
    [bids |-> apply_levels(EmptyMap, snapshot.bids),
     asks |-> apply_levels(EmptyMap, snapshot.asks)]

\* The maps update leaves behind (before validate_orderbook runs).
update(book, book_depth) ==
    [bids |-> apply_levels(book.bids, book_depth.bids),
     asks |-> apply_levels(book.asks, book_depth.asks)]

\* Prices are shown in whole units: the integer quotient by 10^18 (scaled down
\* here, like the prices themselves).
PRICE_UNIT == 10

RECURSIVE ascending(_, _)
ascending(m, keys) ==
    IF keys = {} THEN << >>
    ELSE LET k == CHOOSE p \in keys : \A q \in keys : p <= q
         IN << <<k \div PRICE_UNIT, m[k]>> >> \o ascending(m, keys \ {k})

RECURSIVE descending(_, _)
descending(m, keys) ==
    IF keys = {} THEN << >>
    ELSE LET k == CHOOSE p \in keys : \A q \in keys : q <= p
         IN << <<k \div PRICE_UNIT, m[k]>> >> \o descending(m, keys \ {k})

\* What visualize prints: the market price line (the sum of best bid and best
\* ask stands for their mean) and the rows, asks ascending on the left paired
\* with bids descending on the right, an exhausted side left blank.
visualize(book) ==
    LET asks == ascending(book.asks, DOMAIN book.asks)
        bids == descending(book.bids, DOMAIN book.bids)
        n == IF Len(asks) > Len(bids) THEN Len(asks) ELSE Len(bids)
    IN [market_price |->
            IF DOMAIN book.bids # {} /\ DOMAIN book.asks # {}
            THEN Some(last_key(book.bids) + first_key(book.asks))
            ELSE None,
        rows |-> [i \in 1 .. n |->
                    <<IF i <= Len(asks) THEN asks[i] ELSE << >>,
                      IF i <= Len(bids) THEN bids[i] ELSE << >> >>]]

\* ------------------------------------------------------ what the venue sends

\* A parsed book_depth event (BookDepthResponse).
BookDepth(last_max, max, bids, asks) ==
    [type |-> "BookDepth", last_max_timestamp |-> last_max,
     max_timestamp |-> max, bids |-> bids, asks |-> asks]

\* A parsed subscription acknowledgement (SubscriptionResponse).
SubscriptionResponse == [type |-> "SubscriptionResponse"]

\* The events of the stream: every pair of timestamps with the changes of the
\* documented scenario (bid 50 removed, ask 65 added), one event that adds a
\* bid inside the spread (55), and one that crosses the book of the scenario
\* (a bid at its ask, 60).
BookDepthEvents ==
    {BookDepth(l, m, << <<50, 0>> >>, << <<65, 1>> >>) : l, m \in Timestamps}
    \cup {BookDepth(110, 120, << <<55, 1>> >>, << >>),
          BookDepth(110, 120, << <<60, 1>> >>, << >>)}

\* Events whose timestamps are not numbers: the fields are Strings, so the
\* events parse.
MalformedTimestampEvents ==
    {BookDepth(Malformed, 120, << <<55, 1>> >>, << >>),
     BookDepth(100, Malformed, << <<55, 1>> >>, << >>)}

StreamResponses ==
    BookDepthEvents \cup MalformedTimestampEvents \cup {SubscriptionResponse}

\* deserialize_bid_ask: every price and quantity parses, or the whole field
\* is an error.
deserialize_bid_ask(levels) ==
    IF \A i \in 1 .. Len(levels) :
           parse_u128(levels[i][1]) # None /\ parse_u128(levels[i][2]) # None
    THEN Some([i \in 1 .. Len(levels) |->
                 <<parse_u128(levels[i][1])[1], parse_u128(levels[i][2])[1]>>])
    ELSE None

\* serde_json::from_str::<StreamResponseType>: the untagged enum tries
\* BookDepth, then SubscriptionResponse.
from_str(text) ==
    IF /\ text.type = "BookDepth"
       /\ deserialize_bid_ask(text.bids) # None
       /\ deserialize_bid_ask(text.asks) # None
    THEN Some(BookDepth(text.last_max_timestamp, text.max_timestamp,
                        deserialize_bid_ask(text.bids)[1],
                        deserialize_bid_ask(text.asks)[1]))
    ELSE IF text.type = "SubscriptionResponse" THEN Some(SubscriptionResponse)
    ELSE None

\* Text frames that are no StreamResponseType: a book_depth event with a
\* price that is no number, one with such a quantity, and other JSON.
UnparsableTexts ==
    {BookDepth(110, 120, << <<Malformed, 1>> >>, << >>),
     BookDepth(110, 120, << <<55, Malformed>> >>, << >>),
     [type |-> "Other"]}

\* The text frames of the stream.
Texts == StreamResponses \cup UnparsableTexts

\* What each text frame of the stream parses to.
parsed == [text \in Texts |-> from_str(text)]

\* The books a snapshot may carry: the documented one, one whose lowest bid is
\* at price 0, one whose highest ask is at u128::MAX, and a crossed one.
SnapshotLevels ==
    { << << <<50, 2>> >>, << <<60, 2>> >> >>,
      << << <<0, 1>>, <<50, 2>> >>, << <<60, 2>> >> >>,
      << << <<50, 2>> >>, << <<60, 2>>, <<U128_MAX, 1>> >> >>,
      << << <<60, 2>> >>, << <<60, 2>> >> >> }

\* A parsed MarketLiquidityResponse.
MarketLiquidityResponses ==
    {[timestamp |-> t, bids |-> b[1], asks |-> b[2]] :
        t \in Timestamps, b \in SnapshotLevels}
    \cup {[timestamp |-> Malformed, bids |-> << <<50, 2>> >>,
           asks |-> << <<60, 2>> >>]}

\* -------------------------------------------------------------------- state

VARIABLES
    sub_pc,              \* Subscribe: where the task is
    pending,             \* Subscribe: the response sender.send is holding
    parsed_count,        \* Subscribe: text frames parsed so far
    sub_event,           \* Subscribe: what the task's latest step met
    channel,             \* the mpsc channel's buffer, oldest first
    loop_pc,             \* build_orderbook: where the task is
    query_pc,            \* QueryMarketLiquidity: where the call is
    query_event,         \* QueryMarketLiquidity: what its latest step met
    snapshot,            \* build_orderbook: the snapshot just returned
    order_book,          \* build_orderbook: the OrderBook
    snapshot_timestamp,  \* build_orderbook: None before the first snapshot
    prev_timestamp,      \* build_orderbook: Option<u128>
    synced_from,         \* the snapshot the book was last rebuilt from
    applied_since,       \* whether an event was applied since that snapshot
    outcome,             \* the branch the last turn of the loop took
    dequeued_count,      \* build_orderbook: events received from the channel
    stdout               \* the last book printed, None before the first

vars == <<sub_pc, pending, parsed_count, sub_event, channel, loop_pc,
          query_pc, query_event, snapshot, order_book, snapshot_timestamp,
          prev_timestamp, synced_from, applied_since, outcome,
          dequeued_count, stdout>>

sub_vars == <<sub_pc, pending, parsed_count, sub_event>>

query_vars == <<query_pc, query_event>>

loop_vars == <<loop_pc, query_pc, query_event, snapshot, order_book,
               snapshot_timestamp, prev_timestamp, synced_from,
               applied_since, outcome, dequeued_count, stdout>>

\* The receiver lives in build_orderbook: it is dropped when that returns or
\* unwinds.
receiver_closed == loop_pc \in {"returned", "panicked"}

\* The only sender lives in Subscribe: it is dropped when that returns or the
\* runtime drops the task.
sender_dropped == sub_pc \in {"returned", "cancelled"}

Init ==
    /\ sub_pc = "connect"
    /\ pending = None
    /\ parsed_count = 0
    /\ sub_event = "spawned"
    /\ channel = << >>
    /\ loop_pc = "init_query"
    /\ query_pc = "connect"
    /\ query_event = "called"
    /\ snapshot = None
    /\ order_book = new
    /\ snapshot_timestamp = None
    /\ prev_timestamp = None
    /\ synced_from = "none"
    /\ applied_since = FALSE
    /\ outcome = "none"
    /\ dequeued_count = 0
    /\ stdout = None

\* ------------------------------------------------- listener.rs: Subscribe

\* connect_async_with_config, and on failure the 1 s sleep before the retry.
Connect ==
    /\ sub_pc = "connect"
    /\ \/ sub_pc' = "connected" /\ sub_event' = "connected"
       \/ sub_pc' = "sleep" /\ sub_event' = "connect_failed"
    /\ UNCHANGED <<pending, parsed_count, channel, loop_vars>>

Sleep ==
    /\ sub_pc = "sleep"
    /\ sub_pc' = "connect"
    /\ sub_event' = "slept"
    /\ UNCHANGED <<pending, parsed_count, channel, loop_vars>>

\* The subscription request: a failed send breaks the outer loop.
SendSubscription ==
    /\ sub_pc = "connected"
    /\ \/ sub_pc' = "listen" /\ sub_event' = "subscribed"
       \/ sub_pc' = "returned" /\ sub_event' = "subscribe_failed"
    /\ UNCHANGED <<pending, parsed_count, channel, loop_vars>>

\* ping_interval.tick(): a failed ping breaks the inner loop.
Ping ==
    /\ sub_pc = "listen"
    /\ \/ sub_pc' = "listen" /\ sub_event' = "ping"
       \/ sub_pc' = "connect" /\ sub_event' = "ping_failed"
    /\ UNCHANGED <<pending, parsed_count, channel, loop_vars>>

\* ws.next() yields a text frame that parses: sender.send(resp) starts.
TextFrame(text) ==
    /\ sub_pc = "listen"
    /\ parsed_count < MaxFrames
    /\ parsed[text] # None
    /\ sub_pc' = "send"
    /\ pending' = parsed[text]
    /\ parsed_count' = parsed_count + 1
    /\ sub_event' = "parsed"
    /\ UNCHANGED <<channel, loop_vars>>

\* A text frame that does not parse ending Subscribe.
unparsable_frame_returns(text) ==
    /\ sub_pc = "listen"
    /\ parsed[text] = None
    /\ sub_pc' = "returned"
    /\ sub_event' = IF text.type = "BookDepth"
                    THEN "invalid_number" ELSE "unparsable"
    /\ UNCHANGED <<pending, parsed_count, channel, loop_vars>>

\* ws.next() yields a text frame that does not parse: logged and skipped.
UnparsableFrame(text) ==
    /\ sub_pc = "listen"
    /\ parsed[text] = None
    /\ sub_event' = IF text.type = "BookDepth"
                    THEN "invalid_number" ELSE "unparsable"
    /\ UNCHANGED <<sub_pc, pending, parsed_count, channel, loop_vars>>

\* A frame that is not text breaking the inner loop.
non_text_frame_reconnects ==
    /\ sub_pc = "listen"
    /\ sub_pc' = "connect"
    /\ sub_event' = "not_text"
    /\ UNCHANGED <<pending, parsed_count, channel, loop_vars>>

\* ws.next() yields a frame that is not text: ignored.
NonTextFrame ==
    /\ sub_pc = "listen"
    /\ sub_event' = "not_text"
    /\ UNCHANGED <<sub_pc, pending, parsed_count, channel, loop_vars>>

\* A transport error or a close ending Subscribe.
stream_ends_returns ==
    /\ sub_pc = "listen"
    /\ sub_pc' = "returned"
    /\ sub_event' = "ended"
    /\ UNCHANGED <<pending, parsed_count, channel, loop_vars>>

\* ws.next() yields Some(Err(e)) or None: the inner loop breaks.
StreamEnds ==
    /\ sub_pc = "listen"
    /\ sub_pc' = "connect"
    /\ sub_event' = "ended"
    /\ UNCHANGED <<pending, parsed_count, channel, loop_vars>>

\* Where Subscribe goes when sender.send fails ("Receiver dropped"): the break
\* leaves the inner loop, and the outer loop connects again.
after_receiver_dropped == "connect"

\* Send as try_send would do it: a full buffer loses the response.
try_send ==
    /\ sub_pc = "send"
    /\ IF receiver_closed
       THEN /\ sub_pc' = after_receiver_dropped
            /\ sub_event' = "receiver_dropped"
            /\ channel' = channel
       ELSE /\ sub_pc' = "listen"
            /\ sub_event' = "sent"
            /\ channel' = IF Len(channel) < QueueCap
                          THEN Append(channel, [seq |-> parsed_count,
                                                msg |-> pending[1]])
                          ELSE channel
    /\ pending' = None
    /\ UNCHANGED <<parsed_count, loop_vars>>

\* sender.send(resp).await completes: with an error when the receiver is
\* closed, with the response appended once the buffer has room.
Send ==
    /\ sub_pc = "send"
    /\ IF receiver_closed
       THEN /\ sub_pc' = after_receiver_dropped
            /\ sub_event' = "receiver_dropped"
            /\ channel' = channel
       ELSE /\ Len(channel) < QueueCap
            /\ sub_pc' = "listen"
            /\ sub_event' = "sent"
            /\ channel' = Append(channel,
                                 [seq |-> parsed_count, msg |-> pending[1]])
    /\ pending' = None
    /\ UNCHANGED <<parsed_count, loop_vars>>

\* --------------------------------------------------- main.rs: build_orderbook

\* What a step inside query_market_liquidity().await leaves alone.
query_frame == <<sub_vars, channel, loop_pc, snapshot, order_book,
                 snapshot_timestamp, prev_timestamp, synced_from,
                 applied_since, outcome, dequeued_count, stdout>>

\* Lines 114-122: a connection of its own; a failure starts the loop again.
QueryConnect ==
    /\ query_pc = "connect"
    /\ \/ query_pc' = "send" /\ query_event' = "connected"
       \/ query_pc' = "connect" /\ query_event' = "connect_failed"
    /\ UNCHANGED query_frame

\* Lines 124-127: the request; a failure starts the loop again.
QuerySend ==
    /\ query_pc = "send"
    /\ \/ query_pc' = "next" /\ query_event' = "sent"
       \/ query_pc' = "connect" /\ query_event' = "send_failed"
    /\ UNCHANGED query_frame

\* Lines 136-143: a text frame that does not parse.
QueryUnparsableFrame ==
    /\ query_pc = "next"
    /\ query_pc' = "connect"
    /\ query_event' = "unparsable"
    /\ UNCHANGED query_frame

\* Lines 145-147 sleeping before the retry, as lines 149-156 do.
query_non_text_sleeps ==
    /\ query_pc = "next"
    /\ query_pc' = "sleep"
    /\ query_event' = "not_text"
    /\ UNCHANGED query_frame

\* Lines 145-147: a frame that is not text.
QueryNonTextFrame ==
    /\ query_pc = "next"
    /\ query_pc' = "connect"
    /\ query_event' = "not_text"
    /\ UNCHANGED query_frame

\* Lines 149-156: ws.next() yields Some(Err(e)) or None: sleep comes first.
QueryStreamEnds ==
    /\ query_pc = "next"
    /\ query_pc' = "sleep"
    /\ query_event' = "ended"
    /\ UNCHANGED query_frame

\* The 1 s sleep of lines 151 and 155 is over.
QuerySleep ==
    /\ query_pc = "sleep"
    /\ query_pc' = "connect"
    /\ query_event' = "slept"
    /\ UNCHANGED query_frame

\* Line 135: the first frame is text and parses: query_market_liquidity()
\* returns it.
QueryMarketLiquidity(resp) ==
    /\ query_pc = "next"
    /\ \/ loop_pc = "init_query" /\ loop_pc' = "init_apply"
       \/ loop_pc = "resync_query" /\ loop_pc' = "resync_apply"
    /\ query_pc' = "idle"
    /\ query_event' = "returned"
    /\ snapshot' = Some(resp)
    /\ UNCHANGED <<sub_vars, channel, order_book, snapshot_timestamp,
                   prev_timestamp, synced_from, applied_since, outcome,
                   dequeued_count, stdout>>

\* .parse().expect("Failed to parse timestamp") on a string that is no
\* number: build_orderbook unwinds where it stands.
expect_failed ==
    /\ loop_pc' = "panicked"
    /\ outcome' = "expect_failed"
    /\ UNCHANGED <<sub_vars, channel, query_vars, snapshot, order_book,
                   snapshot_timestamp, prev_timestamp, synced_from,
                   applied_since, dequeued_count, stdout>>

\* A failed validation that is only reported.
after_validate_continue(book) == "recv"

\* from_snapshot and update end in validate_orderbook, whose failed assertion
\* unwinds build_orderbook.
after_validate(book) ==
    IF validate_orderbook(book) = "ok" THEN "recv" ELSE "panicked"

\* Lines 47-52 printing the book they built.
initial_snapshot_prints ==
    /\ loop_pc = "init_apply"
    /\ parse_u128(snapshot[1].timestamp) # None
    /\ LET book == from_snapshot(order_book, snapshot[1])
       IN /\ snapshot_timestamp' = parse_u128(snapshot[1].timestamp)
          /\ prev_timestamp' = None
          /\ order_book' = book
          /\ loop_pc' = after_validate(book)
          /\ stdout' = Some(visualize(book))
    /\ snapshot' = None
    /\ synced_from' = "initial"
    /\ applied_since' = FALSE
    /\ outcome' = "snapshot"
    /\ UNCHANGED <<sub_vars, channel, query_vars, dequeued_count>>

\* Lines 47-52: the first snapshot.  prev_timestamp starts as None.
InitialSnapshot ==
    /\ loop_pc = "init_apply"
    /\ IF parse_u128(snapshot[1].timestamp) = None
       THEN expect_failed
       ELSE /\ LET book == from_snapshot(order_book, snapshot[1])
               IN /\ snapshot_timestamp' = parse_u128(snapshot[1].timestamp)
                  /\ prev_timestamp' = None
                  /\ order_book' = book
                  /\ loop_pc' = after_validate(book)
            /\ snapshot' = None
            /\ synced_from' = "initial"
            /\ applied_since' = FALSE
            /\ outcome' = "snapshot"
            /\ UNCHANGED <<sub_vars, channel, query_vars, dequeued_count,
                           stdout>>

\* Lines 71-73 emptying the channel as well.
resync_flushes ==
    /\ loop_pc = "resync_apply"
    /\ parse_u128(snapshot[1].timestamp) # None
    /\ LET book == from_snapshot(order_book, snapshot[1])
       IN /\ snapshot_timestamp' = parse_u128(snapshot[1].timestamp)
          /\ prev_timestamp' = prev_timestamp
          /\ order_book' = book
          /\ loop_pc' = after_validate(book)
    /\ snapshot' = None
    /\ channel' = << >>
    /\ synced_from' = "resync"
    /\ applied_since' = FALSE
    /\ outcome' = "snapshot"
    /\ UNCHANGED <<sub_vars, query_vars, dequeued_count, stdout>>

\* Lines 71-73: the snapshot fetched after a gap.  Nothing assigns
\* prev_timestamp here.
Resync ==
    /\ loop_pc = "resync_apply"
    /\ IF parse_u128(snapshot[1].timestamp) = None
       THEN expect_failed
       ELSE /\ LET book == from_snapshot(order_book, snapshot[1])
               IN /\ snapshot_timestamp' = parse_u128(snapshot[1].timestamp)
                  /\ prev_timestamp' = prev_timestamp
                  /\ order_book' = book
                  /\ loop_pc' = after_validate(book)
            /\ snapshot' = None
            /\ synced_from' = "resync"
            /\ applied_since' = FALSE
            /\ outcome' = "snapshot"
            /\ UNCHANGED <<sub_vars, channel, query_vars, dequeued_count,
                           stdout>>

\* Line 60 with < for <=.
strictly_before_snapshot(book_depth, cutoff) ==
    book_depth.last_max_timestamp < cutoff

\* Line 60: the event is from before the snapshot.
before_snapshot(book_depth, cutoff) == book_depth.last_max_timestamp <= cutoff

\* Line 64 without its test: every event past the cutoff is applied.
follows_always(prev, last_max_timestamp) == TRUE

\* Line 64 accepting any later event.
follows_or_later(prev, last_max_timestamp) ==
    prev = None \/ prev[1] <= last_max_timestamp

\* Line 64: the event follows the one applied last.
follows(prev, last_max_timestamp) ==
    prev = None \/ prev = Some(last_max_timestamp)

\* Lines 54-80: one turn of the loop on the event receiver.recv() yields.
Recv ==
    /\ loop_pc = "recv"
    /\ channel # << >>
    /\ channel' = Tail(channel)
    /\ dequeued_count' = dequeued_count + 1
    /\ UNCHANGED <<snapshot, snapshot_timestamp, synced_from>>
    /\ LET event == Head(channel).msg
       IN IF event.type # "BookDepth"
          THEN /\ outcome' = "ignored"
               /\ UNCHANGED <<loop_pc, query_vars, order_book,
                              prev_timestamp, applied_since, stdout>>
          ELSE IF \/ parse_u128(event.last_max_timestamp) = None
                  \/ parse_u128(event.max_timestamp) = None
          THEN /\ outcome' = "expect_failed"
               /\ loop_pc' = "panicked"
               /\ UNCHANGED <<query_vars, order_book, prev_timestamp,
                              applied_since, stdout>>
          ELSE IF before_snapshot(event, snapshot_timestamp[1])
          THEN /\ outcome' = "dropped"
               /\ UNCHANGED <<loop_pc, query_vars, order_book,
                              prev_timestamp, applied_since, stdout>>
          ELSE IF follows(prev_timestamp, event.last_max_timestamp)
          THEN LET book == update(order_book, event)
               IN /\ prev_timestamp' = Some(event.max_timestamp)
                  /\ order_book' = book
                  /\ applied_since' = TRUE
                  /\ outcome' = "applied"
                  /\ loop_pc' = after_validate(book)
                  /\ stdout' = IF after_validate(book) = "recv"
                               THEN Some(visualize(book)) ELSE stdout
                  /\ UNCHANGED query_vars
          ELSE /\ outcome' = "gap"
               /\ loop_pc' = "resync_query"
               /\ query_pc' = "connect"
               /\ query_event' = "called"
               /\ UNCHANGED <<order_book, prev_timestamp, applied_since,
                              stdout>>
    /\ UNCHANGED sub_vars

\* receiver.recv() yielding None whenever the buffer is empty.
recv_none_on_empty ==
    /\ loop_pc = "recv"
    /\ channel = << >>
    /\ loop_pc' = "returned"
    /\ UNCHANGED <<sub_vars, channel, query_vars, snapshot, order_book,
                   snapshot_timestamp, prev_timestamp, synced_from,
                   applied_since, outcome, dequeued_count, stdout>>

\* receiver.recv() yields None: the sender is gone and the buffer is empty.
RecvNone ==
    /\ loop_pc = "recv"
    /\ channel = << >>
    /\ sender_dropped
    /\ loop_pc' = "returned"
    /\ UNCHANGED <<sub_vars, channel, query_vars, snapshot, order_book,
                   snapshot_timestamp, prev_timestamp, synced_from,
                   applied_since, outcome, dequeued_count, stdout>>

\* ------------------------------------------------------------ main.rs: main

\* build_orderbook is over (returned, or unwinding): main ends and the runtime
\* drops the Subscribe task at the await it is suspended in.
RuntimeShutdown ==
    /\ receiver_closed
    /\ ~ sender_dropped
    /\ sub_pc' = "cancelled"
    /\ sub_event' = "cancelled"
    /\ pending' = None
    /\ UNCHANGED <<parsed_count, channel, loop_vars>>

Next ==
    \/ Connect
    \/ Sleep
    \/ SendSubscription
    \/ Ping
    \/ \E text \in Texts : TextFrame(text)
    \/ \E text \in Texts : UnparsableFrame(text)
    \/ NonTextFrame
    \/ StreamEnds
    \/ Send
    \/ QueryConnect
    \/ QuerySend
    \/ QueryUnparsableFrame
    \/ QueryNonTextFrame
    \/ QueryStreamEnds
    \/ QuerySleep
    \/ \E resp \in MarketLiquidityResponses : QueryMarketLiquidity(resp)
    \/ InitialSnapshot
    \/ Resync
    \/ Recv
    \/ RecvNone
    \/ RuntimeShutdown

Spec == Init /\ [][Next]_vars

\* ---------------------------------------------- the OrderBook on its own

\* The prices and quantities of the books fed to the OrderBook directly.
BookPrices == {50, 60}

BookQuantities == {0, 1, 2}

\* Every sequence of at most n (price, quantity) pairs.
LevelLists(n) ==
    UNION {[1 .. k -> BookPrices \X BookQuantities] : k \in 0 .. n}

\* The bids and asks of one message: at most MaxLevels pairs between them.
BookChanges ==
    {c \in LevelLists(MaxLevels) \X LevelLists(MaxLevels) :
        Len(c[1]) + Len(c[2]) <= MaxLevels}

\* The books those messages can build that pass validate_orderbook.
Books ==
    {book \in {from_snapshot(new, [bids |-> c[1], asks |-> c[2]]) :
                  c \in BookChanges} : validate_orderbook(book) = "ok"}

\* build_orderbook with any book, printed after the event applied last, and
\* either a snapshot query_market_liquidity() just returned for a gap or an
\* event in the channel that follows the one applied last.
InitBook ==
    /\ sub_pc = "listen"
    /\ pending = None
    /\ parsed_count = 2
    /\ sub_event = "sent"
    /\ query_pc = "idle"
    /\ query_event = "returned"
    /\ order_book \in Books
    /\ snapshot_timestamp = Some(0)
    /\ prev_timestamp = Some(100)
    /\ synced_from = "initial"
    /\ applied_since = TRUE
    /\ stdout = Some(visualize(order_book))
    /\ \E changes \in BookChanges :
          \/ /\ loop_pc = "resync_apply"
             /\ snapshot = Some([timestamp |-> 0, bids |-> changes[1],
                                 asks |-> changes[2]])
             /\ channel = << >>
             /\ dequeued_count = 2
             /\ outcome = "gap"
          \/ /\ loop_pc = "recv"
             /\ snapshot = None
             /\ channel = <<[seq |-> 2,
                             msg |-> BookDepth(100, 100, changes[1],
                                               changes[2])]>>
             /\ dequeued_count = 1
             /\ outcome = "applied"

NextBook ==
    \/ Resync
    \/ Recv

SpecBook == InitBook /\ [][NextBook]_vars

\* ------------------------------------------------------------------- claims

\* The event the next turn of the loop takes from the channel.
head_event == Head(channel).msg

\* A step in which build_orderbook takes an event from the channel.
Dequeues == loop_pc = "recv" /\ dequeued_count' = dequeued_count + 1

\* A step in which build_orderbook applies the snapshot it fetched.
AppliesSnapshot ==
    /\ loop_pc \in {"init_apply", "resync_apply"}
    /\ loop_pc' \notin {"init_apply", "resync_apply"}
    /\ outcome' = "snapshot"

\* A book_depth event whose timestamps are numbers.
IsBookDepth(event) ==
    /\ event.type = "BookDepth"
    /\ parse_u128(event.last_max_timestamp) # None
    /\ parse_u128(event.max_timestamp) # None

AfterCutoff(event) == event.last_max_timestamp > snapshot_timestamp[1]

\* side2 is side with changes made: for every price, the last pair naming it
\* decides (0 removes the level, q > 0 sets it to q), and a price no pair
\* names is as it was.
Changed(side, changes, side2) ==
    \A p \in DOMAIN side \cup DOMAIN side2
             \cup {changes[i][1] : i \in 1 .. Len(changes)} :
        LET named == {i \in 1 .. Len(changes) : changes[i][1] = p}
        IN IF named = {}
           THEN /\ p \in DOMAIN side <=> p \in DOMAIN side2
                /\ p \in DOMAIN side => side2[p] = side[p]
           ELSE LET i == CHOOSE k \in named : \A j \in named : j <= k
                IN IF changes[i][2] = 0
                   THEN p \notin DOMAIN side2
                   ELSE p \in DOMAIN side2 /\ side2[p] = changes[i][2]

\* C1: every snapshot application (the first, and each one after a gap) leaves
\* snapshot_timestamp at the snapshot's timestamp and prev_timestamp unset.
\* The code does not reset prev_timestamp after a gap.
C1_SnapshotResetsState ==
    [][AppliesSnapshot =>
         /\ snapshot_timestamp' = Some(snapshot[1].timestamp)
         /\ prev_timestamp' = None]_vars

\* C2: after a snapshot application, the first dequeued event newer than the
\* snapshot is applied to the book, whatever its last_max_timestamp, and no
\* snapshot is fetched for it.  Fails after a gap, through C1.
C2_FirstEventAfterSnapshotApplied ==
    [][(/\ Dequeues
        /\ IsBookDepth(head_event)
        /\ AfterCutoff(head_event)
        /\ ~ applied_since) =>
         /\ outcome' = "applied"
         /\ loop_pc' # "resync_query"
         /\ Changed(order_book.bids, head_event.bids, order_book'.bids)
         /\ Changed(order_book.asks, head_event.asks, order_book'.asks)]_vars

\* C3: the loop recovers from a gap: once the snapshot fetched for a gap is
\* applied, an event newer than it that is the first such, or that continues
\* the event applied before it, is applied and sends the loop to no further
\* fetch.  Fails through C1.
C3_RecoversFromGap ==
    [][(/\ Dequeues
        /\ synced_from = "resync"
        /\ IsBookDepth(head_event)
        /\ AfterCutoff(head_event)
        /\ \/ ~ applied_since
           \/ prev_timestamp = Some(head_event.last_max_timestamp)) =>
         /\ loop_pc' \in {"recv", "panicked"}
         /\ prev_timestamp' = Some(head_event.max_timestamp)]_vars

\* C4: with prev_timestamp = Some(p), a dequeued event newer than the snapshot
\* whose last_max_timestamp is not p is not applied: the loop fetches a
\* snapshot and rebuilds the book from it alone.  One whose last_max_timestamp
\* is p leads to no fetch.
C4_GapDetection ==
    [][/\ (/\ Dequeues
           /\ IsBookDepth(head_event)
           /\ AfterCutoff(head_event)
           /\ prev_timestamp # None) =>
            IF prev_timestamp[1] # head_event.last_max_timestamp
            THEN /\ loop_pc' = "resync_query"
                 /\ UNCHANGED <<order_book, prev_timestamp,
                                snapshot_timestamp, stdout>>
            ELSE loop_pc' # "resync_query"
       /\ loop_pc = "resync_query" =>
            /\ order_book' = order_book
            /\ loop_pc' \in {"resync_query", "resync_apply"}
       /\ (loop_pc = "resync_apply" /\ AppliesSnapshot) =>
            /\ Changed(EmptyMap, snapshot[1].bids, order_book'.bids)
            /\ Changed(EmptyMap, snapshot[1].asks, order_book'.asks)]_vars

\* C4: a gap was seen and the book rebuilt from the snapshot fetched for it.
C4_Witness ==
    /\ loop_pc = "recv"
    /\ synced_from = "resync"
    /\ outcome = "snapshot"
    /\ DOMAIN order_book.asks # {}

ScenarioBook ==
    [bids |-> insert(EmptyMap, 50, 2), asks |-> insert(EmptyMap, 60, 2)]

\* C6: an accepted event (newer than the snapshot, prev_timestamp unset or
\* equal to its last_max_timestamp) has its changes applied, prev_timestamp
\* becomes its max_timestamp and snapshot_timestamp stays; and the event
\* {last_max 100, max 110, bids [(50,0)], asks [(65,1)]} on the scenario book
\* at snapshot 100 is accepted, leaving no bid, asks 60 / 2 and 65 / 1, and
\* prev_timestamp 110.  The code drops that event: its last_max_timestamp is
\* not above the snapshot's timestamp.
C6_AcceptedDeltaApplied ==
    [][/\ (/\ Dequeues
           /\ IsBookDepth(head_event)
           /\ AfterCutoff(head_event)
           /\ follows(prev_timestamp, head_event.last_max_timestamp)) =>
            /\ Changed(order_book.bids, head_event.bids, order_book'.bids)
            /\ Changed(order_book.asks, head_event.asks, order_book'.asks)
            /\ prev_timestamp' = Some(head_event.max_timestamp)
            /\ snapshot_timestamp' = snapshot_timestamp
       /\ (/\ Dequeues
           /\ order_book = ScenarioBook
           /\ snapshot_timestamp = Some(100)
           /\ prev_timestamp = None
           /\ head_event = BookDepth(100, 110, << <<50, 0>> >>,
                                     << <<65, 1>> >>)) =>
            /\ order_book'.bids = EmptyMap
            /\ order_book'.asks = insert(insert(EmptyMap, 60, 2), 65, 1)
            /\ prev_timestamp' = Some(110)]_vars

\* The four invariants of a book.
BookInvariant(book) ==
    /\ \A p \in DOMAIN book.bids : book.bids[p] > 0
    /\ \A p \in DOMAIN book.asks : book.asks[p] > 0
    /\ \A b \in DOMAIN book.bids : \A a \in DOMAIN book.asks : b < a
    /\ \A b \in DOMAIN book.bids : b > 0
    /\ \A a \in DOMAIN book.asks : a < U128_MAX

\* C7: whenever from_snapshot or update has completed without a failed
\* assertion, every stored quantity is positive, every bid is below every ask,
\* every bid price is positive and every ask price is below u128::MAX.
C7_BookInvariant == loop_pc # "panicked" => BookInvariant(order_book)

\* C7: an event was applied and left a book with both sides.
C7_Witness ==
    /\ loop_pc = "recv"
    /\ outcome = "applied"
    /\ DOMAIN order_book.bids # {}
    /\ DOMAIN order_book.asks # {}

\* C8: a mutation that breaks the book's invariant stops build_orderbook there:
\* nothing is printed for that book, and afterwards no event is taken from the
\* channel, no snapshot is applied and nothing is printed.
C8_ViolationIsFatal ==
    [][/\ (order_book' # order_book /\ ~ BookInvariant(order_book')) =>
            (loop_pc' = "panicked" /\ stdout' = stdout)
       /\ loop_pc = "panicked" =>
            UNCHANGED <<loop_pc, order_book, snapshot_timestamp,
                        prev_timestamp, stdout, dequeued_count, channel>>]_vars

\* C8: an event broke the invariant while another event is waiting, in the
\* channel or in the send Subscribe is suspended in.
C8_Witness ==
    /\ loop_pc = "panicked"
    /\ outcome = "applied"
    /\ channel # << >> \/ pending # None

C10_ReceiverClosedTerminates ==
    [][(sub_pc = "send" /\ receiver_closed /\ sub_pc' # sub_pc) =>
         sub_pc' \in {"returned", "cancelled"}]_vars

\* A step of query_market_liquidity().await that met a failure.
QueryFails(events) == query_event' \in events /\ query_vars' # query_vars

\* C11: query_market_liquidity returns only a response that came as a text
\* frame and parsed, on a connection it opened and sent the request on.  After
\* a failed connect or send, a frame that is not text or does not parse, it
\* returns nothing and connects again at once; after a transport error or a
\* close it returns nothing, sleeps, and connects again.  Nothing else leads
\* to the sleep, and nothing counts the attempts.
C11_FetchRetriesUntilParsed ==
    [][/\ (loop_pc \in {"init_query", "resync_query"} /\ loop_pc' # loop_pc) =>
            /\ query_pc = "next" /\ query_event = "sent"
            /\ snapshot' \in {Some(resp) : resp \in MarketLiquidityResponses}
            /\ loop_pc' = IF loop_pc = "init_query"
                          THEN "init_apply" ELSE "resync_apply"
       /\ QueryFails({"connect_failed"}) =>
            query_pc = "connect" /\ query_pc' = "connect"
       /\ QueryFails({"send_failed"}) =>
            query_pc = "send" /\ query_pc' = "connect"
       /\ QueryFails({"unparsable", "not_text"}) =>
            query_pc = "next" /\ query_pc' = "connect"
       /\ QueryFails({"ended"}) =>
            query_pc = "next" /\ query_pc' = "sleep"
       /\ QueryFails({"connect_failed", "send_failed", "unparsable",
                      "not_text", "ended"}) =>
            UNCHANGED <<loop_pc, snapshot, order_book, snapshot_timestamp>>
       /\ query_pc' = "sleep" => query_event' = "ended"
       /\ query_pc = "sleep" =>
            /\ query_pc' \in {"sleep", "connect"}
            /\ UNCHANGED <<loop_pc, snapshot>>
       /\ (query_pc' = "send" /\ query_pc # "send") => query_pc = "connect"
       /\ (query_pc' = "next" /\ query_pc # "next") => query_pc = "send"]_vars

\* C11: the fetch after a gap met a transport error or a close, slept, and is
\* about to connect again.
C11_Witness ==
    /\ loop_pc = "resync_query"
    /\ query_pc = "connect"
    /\ query_event = "slept"

\* C12: the book a snapshot application leaves is the one the snapshot builds
\* from an empty book, whatever the book was before, and applying the same
\* snapshot to it once more gives the same bids and asks.
C12_SnapshotIdempotent ==
    [][AppliesSnapshot =>
         /\ order_book' = from_snapshot(new, snapshot[1])
         /\ from_snapshot(order_book', snapshot[1]) = order_book']_vars

\* C12: a snapshot was applied to a book with levels that was already the book
\* the snapshot builds (stdout still shows the book from before), and the
\* book is as it was.
C12_Witness ==
    /\ loop_pc = "recv"
    /\ synced_from = "resync"
    /\ outcome = "snapshot"
    /\ order_book # new
    /\ stdout = Some(visualize(order_book))

\* C13: update leaves each side as its own pairs make it: the last pair naming
\* a price removes the level when its quantity is 0 (nothing to remove if the
\* level is absent) and sets the level to its quantity otherwise, a level no
\* pair names stays, and a side with no pairs is untouched by the other's.
C13_DeltaSetsAndDeletes ==
    [][(Dequeues /\ outcome' = "applied") =>
         /\ Changed(order_book.bids, head_event.bids, order_book'.bids)
         /\ Changed(order_book.asks, head_event.asks, order_book'.asks)
         /\ head_event.bids = << >> => order_book'.bids = order_book.bids
         /\ head_event.asks = << >> => order_book'.asks = order_book.asks
         /\ \A side \in {"bids", "asks"} :
              \A i \in 1 .. Len(head_event[side]) :
                 (/\ head_event[side][i][2] = 0
                  /\ \A j \in 1 .. Len(head_event[side]) :
                        j # i => head_event[side][j][1] # head_event[side][i][1])
                 => head_event[side][i][1] \notin DOMAIN order_book'[side]]_vars

\* C13: the event at the head of the channel removes the bid at 50, which the
\* book has, and names no ask, of which the book has one.
C13_Witness ==
    /\ loop_pc = "recv"
    /\ channel # << >>
    /\ head_event.bids = << <<50, 0>> >>
    /\ head_event.asks = << >>
    /\ 50 \in DOMAIN order_book.bids
    /\ DOMAIN order_book.asks # {}

\* The pairs of levels whose quantity is not 0.
NonZero(levels) == SelectSeq(levels, LAMBDA level : level[2] # 0)

\* C14: from_snapshot builds each side from nothing by its pairs in order: a
\* pair with quantity 0 removes the level an earlier pair of the snapshot put
\* at its price and changes nothing when there is none, and a pair with a
\* quantity above 0 inserts the level or overwrites it.
C14_SnapshotPairsInOrder ==
    [][AppliesSnapshot =>
         /\ Changed(EmptyMap, snapshot[1].bids, order_book'.bids)
         /\ Changed(EmptyMap, snapshot[1].asks, order_book'.asks)
         /\ \A p \in DOMAIN order_book'.bids : order_book'.bids[p] > 0
         /\ \A p \in DOMAIN order_book'.asks : order_book'.asks[p] > 0]_vars

\* C14 as stated: a pair with quantity 0 changes nothing, so the book is the
\* one the pairs with a quantity above 0 build.
C14_ZeroPairIsNoOp ==
    [][AppliesSnapshot =>
         /\ Changed(EmptyMap, NonZero(snapshot[1].bids), order_book'.bids)
         /\ Changed(EmptyMap, NonZero(snapshot[1].asks), order_book'.asks)]_vars

\* C14: the snapshot about to be applied to a book with levels names a bid
\* price twice, first with a quantity and then with 0.
C14_Witness ==
    /\ loop_pc = "resync_apply"
    /\ snapshot[1].bids = << <<50, 2>>, <<50, 0>> >>
    /\ order_book # new

\* A step in which build_orderbook takes from the channel a book_depth event
\* with a timestamp that is no number.
DequeuesMalformedTimestamp ==
    /\ Dequeues
    /\ head_event.type = "BookDepth"
    /\ ~ IsBookDepth(head_event)

\* A step in which build_orderbook goes on from a snapshot whose timestamp is
\* no number.
TakesMalformedSnapshot ==
    /\ loop_pc \in {"init_apply", "resync_apply"}
    /\ loop_pc' # loop_pc
    /\ parse_u128(snapshot[1].timestamp) = None

\* A step in which Subscribe meets a book_depth frame with a price or a
\* quantity that is no number.
MeetsMalformedLevel ==
    sub_event' = "invalid_number" /\ sub_event # "invalid_number"

\* What a malformed timestamp does: build_orderbook unwinds with the book and
\* its timestamps as they were.
TimestampIsFatal ==
    (DequeuesMalformedTimestamp \/ TakesMalformedSnapshot) =>
        /\ loop_pc' = "panicked"
        /\ UNCHANGED <<order_book, snapshot_timestamp, prev_timestamp, stdout>>

\* C15: a timestamp that is no number, in a dequeued event or in a snapshot,
\* stops build_orderbook at once; a price or a quantity that is no number
\* makes the frame fail to parse, and Subscribe skips it: nothing is enqueued
\* and Subscribe listens on.
C15_MalformedTimestampFatalLevelSkipped ==
    [][/\ TimestampIsFatal
       /\ MeetsMalformedLevel =>
            /\ sub_pc = "listen" /\ sub_pc' = "listen"
            /\ UNCHANGED <<channel, pending, parsed_count>>]_vars

\* C15 as stated: every such message stops the task that handles it.
C15_MalformedIsFatal ==
    [][/\ TimestampIsFatal
       /\ MeetsMalformedLevel => sub_pc' \in {"returned", "cancelled"}]_vars

\* C15: Subscribe skipped a frame with a malformed price or quantity and
\* listens, and build_orderbook unwound on a malformed timestamp.
C15_Witness ==
    /\ sub_event = "invalid_number"
    /\ sub_pc = "listen"
    /\ loop_pc = "panicked"
    /\ outcome = "expect_failed"

\* A step in which Subscribe meets one of events.
SubscribeMeets(events) == sub_event' \in events /\ sub_event' # sub_event

\* C16: a failed connect leads to the 1 s sleep and from there to the next
\* connect, with nothing counting the attempts.  Subscribe starts to listen
\* only by sending the subscription on a connection just made, and sends it
\* nowhere else.  A failed ping, a transport error and a close lead to a new
\* connect.  Subscribe returns only from a failed send of the subscription,
\* and stays returned.
C16_ReconnectProtocol ==
    [][/\ SubscribeMeets({"connect_failed"}) =>
            sub_pc = "connect" /\ sub_pc' = "sleep"
       /\ sub_pc = "sleep" => sub_pc' \in {"sleep", "connect", "cancelled"}
       /\ SubscribeMeets({"connected"}) =>
            sub_pc = "connect" /\ sub_pc' = "connected"
       /\ (sub_pc = "connected" /\ sub_pc' # "connected") =>
            sub_event' \in {"subscribed", "subscribe_failed", "cancelled"}
       /\ SubscribeMeets({"subscribed"}) =>
            sub_pc = "connected" /\ sub_pc' = "listen"
       /\ (sub_pc' = "listen" /\ sub_pc \notin {"listen", "send"}) =>
            sub_pc = "connected" /\ sub_event' = "subscribed"
       /\ SubscribeMeets({"ping_failed", "ended"}) =>
            sub_pc = "listen" /\ sub_pc' = "connect"
       /\ SubscribeMeets({"subscribe_failed"}) =>
            sub_pc = "connected" /\ sub_pc' = "returned"
       /\ (sub_pc' = "returned" /\ sub_pc # "returned") =>
            sub_event' = "subscribe_failed"
       /\ sub_pc = "returned" => sub_pc' = "returned"
       /\ sub_pc' # sub_pc => sub_event' # sub_event]_vars

\* C16: Subscribe sent the subscription on a connection made after events
\* were parsed on an earlier one.
C16_Witness ==
    /\ sub_pc = "listen"
    /\ sub_event = "subscribed"
    /\ parsed_count > 0

\* C17: a frame that is not text and a text frame that does not parse leave
\* Subscribe listening on its connection, with the channel, the send and the
\* count of parsed frames as they were; a frame parsed right after is the
\* next one to be sent.
C17_BadFrameSkipped ==
    [][/\ SubscribeMeets({"not_text", "unparsable", "invalid_number"}) =>
            /\ sub_pc = "listen" /\ sub_pc' = "listen"
            /\ UNCHANGED <<channel, pending, parsed_count>>
       /\ (/\ sub_event \in {"not_text", "unparsable", "invalid_number"}
           /\ SubscribeMeets({"parsed"})) =>
            /\ sub_pc' = "send"
            /\ pending' # None
            /\ parsed_count' = parsed_count + 1
       /\ (sub_pc = "send" /\ sub_event' = "sent") =>
            channel' = Append(channel, [seq |-> parsed_count,
                                        msg |-> pending[1]])]_vars

\* C17: a frame was skipped while an event sent on the same connection waits
\* in the channel, and the stream has frames to come.
C17_Witness ==
    /\ sub_pc = "listen"
    /\ sub_event \in {"not_text", "unparsable"}
    /\ channel # << >>
    /\ parsed_count < MaxFrames

\* What line 60 and line 64 make of an event, given the snapshot's timestamp
\* and the max_timestamp of the event applied last.
Verdict(event, cutoff, prev) ==
    IF event.last_max_timestamp <= cutoff THEN "dropped"
    ELSE IF prev = None \/ prev[1] = event.last_max_timestamp THEN "applied"
    ELSE "gap"

C19_NewerEventApplied ==
    [][(/\ Dequeues
        /\ IsBookDepth(head_event)
        /\ head_event.max_timestamp > snapshot_timestamp[1]
        /\ \/ prev_timestamp = None
           \/ prev_timestamp[1] = head_event.last_max_timestamp) =>
         outcome' = "applied"]_vars

\* C20: build_orderbook returns only when Subscribe is over and the channel
\* is empty, every event that was sent having been taken from the channel.
C20_ReturnsOnlyWhenDrained ==
    [][(loop_pc' = "returned" /\ loop_pc # "returned") =>
         /\ loop_pc = "recv"
         /\ sender_dropped
         /\ channel = << >>
         /\ pending = None
         /\ dequeued_count = parsed_count]_vars

\* C20: Subscribe returned, and build_orderbook returned after it took the
\* events that were sent.
C20_Witness ==
    /\ loop_pc = "returned"
    /\ sub_pc = "returned"
    /\ dequeued_count = MaxFrames

\* A step in which build_orderbook applies an event and the book passes
\* validate_orderbook.
AcceptsDelta == Dequeues /\ outcome' = "applied" /\ loop_pc' # "panicked"

\* A step in which build_orderbook applies a snapshot and the book passes
\* validate_orderbook.
RebuildsBook == AppliesSnapshot /\ loop_pc' # "panicked"

\* C21: the book is printed as it is after every accepted event, and no other
\* step prints a book: not a snapshot application, the first or a later one,
\* nor an event that is dropped, ignored or reveals a gap.
C21_RenderedOnAcceptedDeltaOnly ==
    [][/\ AcceptsDelta => stdout' = Some(visualize(order_book'))
       /\ ~ AcceptsDelta => stdout' = stdout]_vars

\* C21 as stated: the book is printed as it is after every accepted event and
\* after every snapshot application, and by no other step.
C21_RenderedOnEveryMutation ==
    [][/\ (AcceptsDelta \/ RebuildsBook) =>
            stdout' = Some(visualize(order_book'))
       /\ ~ (AcceptsDelta \/ RebuildsBook) => stdout' = stdout]_vars

\* C21: the snapshot fetched for a gap was applied, and the book printed last
\* is another one than the book it built.
C21_Witness ==
    /\ loop_pc = "recv"
    /\ synced_from = "resync"
    /\ outcome = "snapshot"
    /\ stdout # None
    /\ stdout # Some(visualize(order_book))

====
